---- MODULE Spec2Model ----
(***************************************************************************)
(* Teacher dashboard (src/pages/teacher.py): a Streamlit page that, behind *)
(* a password gate, fetches graded submissions through a 60 second cache,  *)
(* derives O/X/? verdicts from the stored feedback text, shows statistics  *)
(* and builds the detailed and the summary grade sheet.                    *)
(*                                                                         *)
(* Text values (feedback, answers) are sequences of one-character strings. *)
(* Column names of the page are Korean; the model uses these names:        *)
(*   submitted_at = "제출일시", result[i] = "결과i", total = "총점",            *)
(*   correct_count = "정답개수", student_id = "학번".                          *)
(***************************************************************************)
EXTENDS Integers, Sequences, FiniteSets, TLC

VARIABLES
    feedback,          \* argument of one extract_result call
    verdict,           \* its return value ("none" before the call)
    df,                \* the DataFrame of the run after the load block
    detailed,          \* result of create_detailed_grade_sheet(df)
    summary,           \* result of create_summary_grade_sheet(df)
    screen_stats,      \* per-question statistics rendered on the page
    export_stats,      \* per-question statistics table offered for download
    password_correct,  \* st.session_state.password_correct
    secret,            \* st.secrets["TEACHER_PASSWORD"], or Unset
    cache,             \* entries of @st.cache_data(ttl=60) on load_submissions
    now,               \* wall clock, in seconds
    table,             \* rows of the student_submissions table
    clicked,           \* the button pressed in the last script run
    entered,           \* the password typed in the last script run
    filter,            \* (start_date, end_date) of the last script run
    load,              \* what load_submissions did in the last script run
    outcome,           \* how the last script run ended
    fetchedAt          \* history: per filter, time of the last successful
                       \* repository fetch since the last manual refresh

vars == <<feedback, verdict, df, detailed, summary, screen_stats, export_stats,
          password_correct, secret, cache, now, table, clicked, entered,
          filter, load, outcome, fetchedAt>>

-----------------------------------------------------------------------------
(* Bounds of the model *)

MaxLen == 3          \* longest feedback text given to extract_result alone
MaxStudents == 2     \* student ids are 1..MaxStudents (their sort order)
MaxTime == 3         \* created_at ranges over 1..MaxTime
MaxRows == 2         \* most rows of a frame in SpecSheets
MaxLatestRows == 3   \* most rows of a frame in SpecLatest
TicksPerMinute == 2  \* created_at units per minute of "%Y-%m-%d %H:%M"
MinutesPerDay == 2   \* minutes per calendar day of the date filter

-----------------------------------------------------------------------------
(* Text values *)

\* Python None (a JSON null of the table): differs from every text
None == <<"None">>

Alphabet == {"O", "X", ":", " ", "o"}

RECURSIVE TextsOfLen(_)
TextsOfLen(n) ==
    IF n = 0 THEN {<<>>}
    ELSE {Append(s, c) : s \in TextsOfLen(n - 1), c \in Alphabet}

\* the values extract_result is called with: None and every short text
FeedbackInputs == {None} \cup UNION {TextsOfLen(n) : n \in 0..MaxLen}

\* Python truthiness of a text or None: `not feedback`
falsy(v) == v = None \/ v = <<>>

\* str.startswith
startswith(s, prefix) ==
    /\ Len(s) >= Len(prefix)
    /\ SubSeq(s, 1, Len(prefix)) = prefix

\* a plausible bug: the prefix is matched after stripping and upper-casing
upper(c) == IF c = "o" THEN "O" ELSE c

RECURSIVE lstrip(_)
lstrip(s) == IF s # <<>> /\ Head(s) = " " THEN lstrip(Tail(s)) ELSE s

extract_result_normalised(fb) ==
    IF falsy(fb) THEN "?"
    ELSE LET t == [i \in 1..Len(lstrip(fb)) |-> upper(lstrip(fb)[i])]
         IN  IF startswith(t, <<"O", ":">>) THEN "O"
             ELSE IF startswith(t, <<"X", ":">>) THEN "X"
             ELSE "?"

extract_result(fb) ==
    IF falsy(fb) THEN "?"
    ELSE IF startswith(fb, <<"O", ":">>) THEN "O"
    ELSE IF startswith(fb, <<"X", ":">>) THEN "X"
    ELSE "?"

\* a plausible bug: an incorrect answer scores too
calculate_score_any(result) == IF result \in {"O", "X"} THEN 1 ELSE 0

calculate_score(result) == IF result = "O" THEN 1 ELSE 0

Questions == 1..3

-----------------------------------------------------------------------------
(* Submissions and the DataFrame of a run *)

Students == 1..MaxStudents
Times == 1..MaxTime

fb_ok == <<"O", ":", " ", "o", "k">>
fb_no == <<"X", ":", " ", "n", "o">>
fb_maybe == <<"m", "a", "y", "b", "e">>
fb_lower == <<"o", ":", " ", "o", "k">>
ans_a == <<"a">>
ans_b == <<"b">>

\* answers and feedback of the two submissions of the end-to-end scenario
ScenarioContents ==
    { [answer |-> <<ans_a, ans_a, ans_a>>, feedback |-> <<fb_ok, fb_no, <<>> >>],
      [answer |-> <<ans_a, ans_b, ans_a>>, feedback |-> <<fb_no, fb_ok, fb_ok>>] }

\* the same, and submissions with a null answer and with a null feedback
Contents ==
    ScenarioContents \cup
    { [answer |-> <<None, ans_a, ans_a>>, feedback |-> <<fb_ok, fb_ok, fb_ok>>],
      [answer |-> <<ans_a, ans_a, ans_b>>, feedback |-> <<None, fb_maybe, fb_lower>>] }

\* one record of the table, as response.data holds it
Submission(s, t, c) ==
    [student_id |-> s, created_at |-> t, answer |-> c.answer, feedback |-> c.feedback]

\* the created_at of k rows as query.order("created_at", desc=True) leaves them
NewestFirst(k) ==
    {t \in [1..k -> Times] : \A i \in 1..(k - 1) : t[i] >= t[i + 1]}

\* dt.strftime("%Y-%m-%d %H:%M"): the minute the time falls in
strftime(t) == t \div TicksPerMinute

\* lines 231-237: the frame with its derived columns
LoadBlock(data) ==
    [i \in 1..Len(data) |->
        [student_id |-> data[i].student_id,
         created_at |-> data[i].created_at,
         answer |-> data[i].answer,
         feedback |-> data[i].feedback,
         submitted_at |-> strftime(data[i].created_at),
         result |-> [q \in Questions |-> extract_result(data[i].feedback[q])]]]

NotBuilt == [status |-> "none", rows |-> <<>>]

total_score(results) ==
    calculate_score(results[1]) + calculate_score(results[2])
        + calculate_score(results[3])

detailed_record(row) ==
    [student_id |-> row.student_id,
     submitted_at |-> row.submitted_at,
     result |-> row.result,
     score |-> [q \in Questions |-> calculate_score(row.result[q])],
     answer |-> row.answer,
     feedback |-> row.feedback,
     total |-> total_score(row.result)]

\* a plausible bug: only each student's newest submission is kept
RECURSIVE drop_duplicates(_)
drop_duplicates(frame) ==
    IF frame = <<>> THEN <<>>
    ELSE LET n == Len(frame)
             front == SubSeq(frame, 1, n - 1)
         IN  IF \E j \in 1..(n - 1) : frame[j].student_id = frame[n].student_id
             THEN drop_duplicates(front)
             ELSE Append(drop_duplicates(front), frame[n])

create_detailed_grade_sheet_latest(frame) ==
    [status |-> "ok",
     rows |-> [i \in 1..Len(drop_duplicates(frame))
                 |-> detailed_record(drop_duplicates(frame)[i])]]

create_detailed_grade_sheet(frame) ==
    [status |-> "ok",
     rows |-> [i \in 1..Len(frame) |-> detailed_record(frame[i])]]

without(rows, i) == SubSeq(rows, 1, i - 1) \o SubSeq(rows, i + 1, Len(rows))

\* a plausible bug: the frame is sorted oldest first
RECURSIVE sort_values_ascending(_)
sort_values_ascending(frame) ==
    IF frame = <<>> THEN {<<>>}
    ELSE UNION { {<<frame[i]>> \o rest : rest \in sort_values_ascending(without(frame, i))} :
                 i \in {j \in 1..Len(frame) :
                          \A k \in 1..Len(frame) :
                              frame[j].created_at <= frame[k].created_at} }

\* df.sort_values("created_at", ascending=False): the default sort is not
\* stable, so rows of equal created_at may come in any order
RECURSIVE sort_values_descending(_)
sort_values_descending(frame) ==
    IF frame = <<>> THEN {<<>>}
    ELSE UNION { {<<frame[i]>> \o rest : rest \in sort_values_descending(without(frame, i))} :
                 i \in {j \in 1..Len(frame) :
                          \A k \in 1..Len(frame) :
                              frame[j].created_at >= frame[k].created_at} }

\* .groupby("student_id").first().reset_index(): one row per key, keys
\* ascending, each column the first value of the group that is not null.
\* The columns read below (submitted_at, result) are never null, so that is
\* the value of the group's first row.
groupby_first(sorted) ==
    LET keys == {sorted[i].student_id : i \in 1..Len(sorted)}
        ordered == SelectSeq([s \in 1..MaxStudents |-> s], LAMBDA s : s \in keys)
        first(k) == sorted[CHOOSE i \in 1..Len(sorted) :
                        /\ sorted[i].student_id = k
                        /\ \A j \in 1..(i - 1) : sorted[j].student_id # k]
    IN  [n \in 1..Len(ordered) |->
            [student_id |-> ordered[n],
             submitted_at |-> first(ordered[n]).submitted_at,
             result |-> first(ordered[n]).result]]

summary_record(row) ==
    [student_id |-> row.student_id,
     submitted_at |-> row.submitted_at,
     result |-> row.result,
     correct_count |-> total_score(row.result),
     total |-> total_score(row.result)]

\* create_summary_grade_sheet on one outcome of the sort.  With no rows
\* pd.DataFrame([]) has no column to sort by: KeyError.
summary_of(sorted) ==
    LET latest_df == groupby_first(sorted)
    IN  IF Len(latest_df) = 0
        THEN [status |-> "KeyError", rows |-> <<>>]
        ELSE [status |-> "ok",
              rows |-> [n \in 1..Len(latest_df) |-> summary_record(latest_df[n])]]

create_summary_grade_sheet(frame) ==
    {summary_of(sorted) : sorted \in sort_values_descending(frame)}

-----------------------------------------------------------------------------
(* Per-question statistics *)

\* a rate in tenths of a percent, or numpy's nan
Number(n) == [nan |-> FALSE, tenths |-> n]
NaN == [nan |-> TRUE, tenths |-> 0]

\* (df[col] == v).sum()
count(frame, q, v) == Cardinality({i \in 1..Len(frame) : frame[i].result[q] = v})

\* correct / total * 100 to one decimal place (f"{x:.1f}" and round(x, 1)
\* agree: no total below 16 puts the quotient half-way between two tenths)
percent(correct, total) == (2000 * correct + total) \div (2 * total)

\* lines 278-286: the rate of the on-screen statistics
correct_rate(correct, total) ==
    IF total > 0 THEN Number(percent(correct, total)) ELSE Number(0)

\* lines 458-460: numpy.int64 / int, where 0 / 0 is nan and no exception
exported_rate(correct, total) ==
    IF total = 0 THEN NaN ELSE Number(percent(correct, total))

NoStats == [status |-> "none", rows |-> <<>>]

\* lines 275-292
question_statistics(frame) ==
    [status |-> "ok",
     rows |-> [q \in Questions |->
        [total |-> Len(frame),
         correct |-> count(frame, q, "O"),
         incorrect |-> count(frame, q, "X"),
         unknown |-> count(frame, q, "?"),
         rate |-> correct_rate(count(frame, q, "O"), Len(frame))]]]

\* lines 445-464
stats_data(frame) ==
    [status |-> "ok",
     rows |-> [q \in Questions |->
        [correct |-> count(frame, q, "O"),
         incorrect |-> count(frame, q, "X"),
         rate |-> exported_rate(count(frame, q, "O"), Len(frame))]]]

-----------------------------------------------------------------------------
(* The session: password gate, fetch cache, clock and table *)

ttl == 60
TickStep == 20       \* seconds the clock advances at a time
MaxClock == 60       \* the clock stops here

Unset == "unset"
TeacherPassword == "teacher2024"
Typed == {TeacherPassword, "wrong", ""}

Dates == {0, 1}
TicksPerDay == TicksPerMinute * MinutesPerDay

\* (start_date, end_date): <<>> when the date filter is off, else one of
\* the one-day windows
NoFilter == <<>>
FilterKeys == {NoFilter} \cup {<<d, d>> : d \in Dates}

NoEntry == [present |-> FALSE, data |-> <<>>, expires |-> 0]
EmptyCache == [k \in FilterKeys |-> NoEntry]

Never == 0 - 1
NoLoad == [status |-> "none", data |-> <<>>, at |-> 0]

\* the submissions the grading pipeline inserts, in this order: the two of
\* student 1 of the end-to-end scenario on day 0, then one of student 2 on
\* day 1 whose first feedback is null
Catalog ==
    LET contents(a, f) == [answer |-> a, feedback |-> f]
    IN  << Submission(1, 1, contents(<<ans_a, ans_a, ans_a>>, <<fb_ok, fb_no, <<>> >>)),
           Submission(1, 2, contents(<<ans_a, ans_b, ans_a>>, <<fb_no, fb_ok, fb_ok>>)),
           Submission(2, TicksPerDay,
                      contents(<<ans_a, ans_a, ans_b>>, <<None, fb_maybe, fb_lower>>)) >>

SessionInit ==
    /\ password_correct = FALSE
    /\ secret \in {TeacherPassword, Unset}
    /\ cache = EmptyCache
    /\ now = 0
    /\ table = <<>>
    /\ clicked = "none"
    /\ entered = ""
    /\ filter = NoFilter
    /\ load = NoLoad
    /\ outcome = "none"
    /\ fetchedAt = [k \in FilterKeys |-> Never]

\* the session at rest, for the specifications of the pure functions
SessionIdle ==
    /\ SessionInit
    /\ secret = TeacherPassword

sessionVars == <<password_correct, secret, cache, now, table, clicked, entered,
                 filter, load, outcome, fetchedAt>>
sheetVars == <<df, detailed, summary, screen_stats, export_stats>>
extractVars == <<feedback, verdict>>

SheetsIdle ==
    /\ df = <<>>
    /\ detailed = NotBuilt
    /\ summary = NotBuilt
    /\ screen_stats = NoStats
    /\ export_stats = NoStats

ExtractIdle ==
    /\ feedback = None
    /\ verdict = "none"

-----------------------------------------------------------------------------
(* extract_result applied to every short feedback value *)

ExtractInit ==
    /\ feedback \in FeedbackInputs
    /\ verdict = "none"
    /\ SheetsIdle
    /\ SessionIdle

Extract ==
    /\ verdict = "none"
    /\ verdict' = extract_result(feedback)
    /\ UNCHANGED <<feedback, sheetVars, sessionVars>>

SpecExtract == ExtractInit /\ [][Extract]_vars

-----------------------------------------------------------------------------
(* The statistics and the grade sheets applied to every small frame *)

Unbuilt ==
    /\ detailed = NotBuilt
    /\ summary = NotBuilt
    /\ screen_stats = NoStats
    /\ export_stats = NoStats

SheetsInit ==
    /\ \E k \in 0..MaxRows : \E ts \in NewestFirst(k) :
          \E who \in [1..k -> Students], what \in [1..k -> Contents] :
              df = LoadBlock([i \in 1..k |-> Submission(who[i], ts[i], what[i])])
    /\ Unbuilt
    /\ ExtractIdle
    /\ SessionIdle

LatestInit ==
    /\ \E k \in 0..MaxLatestRows : \E ts \in NewestFirst(k) :
          \E who \in [1..k -> Students], what \in [1..k -> ScenarioContents] :
              df = LoadBlock([i \in 1..k |-> Submission(who[i], ts[i], what[i])])
    /\ Unbuilt
    /\ ExtractIdle
    /\ SessionIdle

ShowStatistics ==
    /\ Unbuilt
    /\ screen_stats' = question_statistics(df)
    /\ UNCHANGED <<df, detailed, summary, export_stats, extractVars, sessionVars>>

BuildDetailed ==
    /\ detailed = NotBuilt
    /\ screen_stats = NoStats
    /\ export_stats = NoStats
    /\ detailed' = create_detailed_grade_sheet(df)
    /\ UNCHANGED <<df, summary, screen_stats, export_stats, extractVars, sessionVars>>

BuildSummary ==
    /\ summary = NotBuilt
    /\ screen_stats = NoStats
    /\ export_stats = NoStats
    /\ summary' \in create_summary_grade_sheet(df)
    /\ UNCHANGED <<df, detailed, screen_stats, export_stats, extractVars, sessionVars>>

ExportStatistics ==
    /\ Unbuilt
    /\ export_stats' = stats_data(df)
    /\ UNCHANGED <<df, detailed, summary, screen_stats, extractVars, sessionVars>>

SheetsNext == ShowStatistics \/ BuildDetailed \/ BuildSummary \/ ExportStatistics

SpecSheets == SheetsInit /\ [][SheetsNext]_vars

\* the summary sheet alone, over longer frames of fewer contents
SpecLatest == LatestInit /\ [][BuildSummary]_vars

-----------------------------------------------------------------------------
(* The page script, one action per script run *)

\* lines 84-88: gte start of start_date, lte end of end_date
in_range(row, key) ==
    \/ key = NoFilter
    \/ /\ row.created_at >= key[1] * TicksPerDay
       /\ row.created_at <= (key[2] + 1) * TicksPerDay - 1

\* line 90, query.order("created_at", desc=True): the store orders rows of
\* equal created_at as it pleases
RECURSIVE order_desc(_)
order_desc(rows) ==
    IF rows = <<>> THEN {<<>>}
    ELSE UNION { {<<rows[i]>> \o rest : rest \in order_desc(without(rows, i))} :
                 i \in {j \in 1..Len(rows) :
                          \A k \in 1..Len(rows) :
                              rows[j].created_at >= rows[k].created_at} }

\* lines 82-93: what response.data may be
query(tbl, key) == order_desc(SelectSeq(tbl, LAMBDA r : in_range(r, key)))

\* a plausible bug: an entry of exactly ttl seconds still counts as fresh
is_fresh_inclusive(entry, t) == entry.present /\ t <= entry.expires

\* the cache's lookup: an entry is served while the clock is before its expiry
is_fresh(entry, t) == entry.present /\ t < entry.expires

\* the cache's store: expired entries are dropped, the new one lives ttl seconds
store(c, key, data, t) ==
    [k \in FilterKeys |->
        IF k = key THEN [present |-> TRUE, data |-> data, expires |-> t + ttl]
        ELSE IF is_fresh(c[k], t) THEN c[k]
        ELSE NoEntry]

\* load_submissions behind @st.cache_data(ttl=60): a fresh entry is returned
\* without running the function; otherwise the query runs and either raises
\* or returns `fresh`
load_submissions(c, key, t, fails, fresh) ==
    IF is_fresh(c[key], t) THEN [status |-> "hit", data |-> c[key].data, at |-> t]
    ELSE IF fails THEN [status |-> "raise", data |-> <<>>, at |-> t]
    ELSE [status |-> "fetched", data |-> fresh, at |-> t]

\* a plausible bug: the handler swallows the exception and goes on with no rows
load_outcome_swallowed(l) ==
    IF l.data = <<>> THEN "no_data" ELSE "loaded"

\* a plausible bug: the empty result is not stopped
load_outcome_unguarded(l) ==
    IF l.status = "raise" THEN "error" ELSE "loaded"

\* lines 224-241: except Exception -> st.error, st.stop(); `if not data` ->
\* st.warning, st.stop() (st.stop() is no Exception: the handler lets it pass)
load_outcome(l) ==
    IF l.status = "raise" THEN "error"
    ELSE IF l.data = <<>> THEN "no_data"
    ELSE "loaded"

\* line 220: st.cache_data.clear()
cleared(c) == EmptyCache

\* a plausible bug: any password is accepted once one is configured
password_matches_any(pw, sec) == sec # Unset

\* lines 44-54: KeyError when the secret is not set, else the comparison
password_matches(pw, sec) == sec # Unset /\ pw = sec

\* line 318: the options of the student selectbox (0: no option, None)
select_options(frame) ==
    IF frame = <<>> THEN {0} ELSE {frame[i].student_id : i \in 1..Len(frame)}

\* line 321: the chosen student's submissions, newest first
student_data(frame, sel) ==
    sort_values_descending(SelectSeq(frame, LAMBDA r : r.student_id = sel))

\* lines 336-361: feedback.startswith raises AttributeError on None
detail_view_raises(row) == \E q \in Questions : row.feedback[q] = None

\* lines 299-303: what is typed in the search box; str.contains takes it as
\* a regular expression and raises on an unbalanced parenthesis
SearchInputs == {"1", "("}
search_raises(search_id) == search_id = "("

LoginPage ==
    /\ outcome' = "login"
    /\ load' = NoLoad
    /\ filter' = NoFilter
    /\ df' = <<>>
    /\ detailed' = NotBuilt
    /\ summary' = NotBuilt
    /\ screen_stats' = NoStats
    /\ export_stats' = NoStats

\* lines 195-477 with the cache c and the fetch history h at the load
Dashboard(c, h, key) ==
    \E fails \in BOOLEAN, fresh \in query(table, key) :
        LET l == load_submissions(c, key, now, fails, fresh)
            o == load_outcome(l)
            frame == LoadBlock(l.data)
        IN  /\ load' = l
            /\ filter' = key
            /\ cache' = IF l.status = "fetched" THEN store(c, key, l.data, now) ELSE c
            /\ fetchedAt' = IF l.status = "fetched" THEN [h EXCEPT ![key] = now] ELSE h
            /\ IF o # "loaded"
               THEN /\ outcome' = o
                    /\ df' = <<>>
                    /\ detailed' = NotBuilt
                    /\ summary' = NotBuilt
                    /\ screen_stats' = NoStats
                    /\ export_stats' = NoStats
               ELSE /\ df' = frame
                    /\ screen_stats' = question_statistics(frame)
                    /\ \E search_id \in SearchInputs :
                       \E sel \in select_options(frame) :
                       \E rows \in student_data(frame, sel) :
                       \E idx \in (IF rows = <<>> THEN {0} ELSE 1..Len(rows)) :
                       \E sheet \in create_summary_grade_sheet(frame) :
                          IF \/ search_raises(search_id)
                             \/ idx > 0 /\ detail_view_raises(rows[idx])
                          THEN /\ outcome' = "exception"
                               /\ detailed' = NotBuilt
                               /\ summary' = NotBuilt
                               /\ export_stats' = NoStats
                          ELSE /\ detailed' = create_detailed_grade_sheet(frame)
                               /\ summary' = sheet
                               /\ export_stats' =
                                    IF sheet.status = "ok" THEN stats_data(frame)
                                    ELSE NoStats
                               /\ outcome' =
                                    IF sheet.status = "ok" THEN "ok" ELSE "exception"

\* a script run of the login page with no button pressed
OpenLogin ==
    /\ ~password_correct
    /\ clicked' = "none"
    /\ entered' \in Typed
    /\ LoginPage
    /\ UNCHANGED <<password_correct, secret, cache, now, table, fetchedAt, extractVars>>

\* lines 42-54: the login button
Login ==
    /\ ~password_correct
    /\ clicked' = "login"
    /\ entered' \in Typed
    /\ IF password_matches(entered', secret)
       THEN /\ password_correct' = TRUE
            /\ Dashboard(cache, fetchedAt, NoFilter)
       ELSE /\ password_correct' = FALSE
            /\ LoginPage
            /\ UNCHANGED <<cache, fetchedAt>>
    /\ UNCHANGED <<secret, now, table, extractVars>>

\* lines 57-58: the cancel button
Cancel ==
    /\ ~password_correct
    /\ clicked' = "cancel"
    /\ entered' \in Typed
    /\ LoginPage
    /\ UNCHANGED <<password_correct, secret, cache, now, table, fetchedAt, extractVars>>

\* a script run of the dashboard with no button pressed
View ==
    /\ password_correct
    /\ clicked' = "none"
    /\ \E key \in FilterKeys : Dashboard(cache, fetchedAt, key)
    /\ UNCHANGED <<password_correct, secret, now, table, entered, extractVars>>

\* lines 219-221: the refresh button, st.rerun() included
Refresh ==
    /\ password_correct
    /\ clicked' = "refresh"
    /\ \E key \in FilterKeys :
          Dashboard(cleared(cache), [k \in FilterKeys |-> Never], key)
    /\ UNCHANGED <<password_correct, secret, now, table, entered, extractVars>>

\* lines 191-193: the logout button, st.rerun() included
Logout ==
    /\ password_correct
    /\ clicked' = "logout"
    /\ password_correct' = FALSE
    /\ LoginPage
    /\ UNCHANGED <<secret, cache, now, table, entered, fetchedAt, extractVars>>

\* time passes
Tick ==
    /\ now + TickStep <= MaxClock
    /\ now' = now + TickStep
    /\ UNCHANGED <<password_correct, secret, cache, table, clicked, entered, filter,
                   load, outcome, fetchedAt, sheetVars, extractVars>>

\* the grading pipeline inserts the next submission
Submit ==
    /\ Len(table) < Len(Catalog)
    /\ table' = Append(table, Catalog[Len(table) + 1])
    /\ UNCHANGED <<password_correct, secret, cache, now, clicked, entered, filter,
                   load, outcome, fetchedAt, sheetVars, extractVars>>

Init ==
    /\ SessionInit
    /\ SheetsIdle
    /\ ExtractIdle

Next ==
    \/ OpenLogin
    \/ Login
    \/ Cancel
    \/ View
    \/ Refresh
    \/ Logout
    \/ Tick
    \/ Submit

Spec == Init /\ [][Next]_vars

-----------------------------------------------------------------------------
(* Properties *)

Built(sheet) == sheet.status # "none"
RowsOf(sheet) == {sheet.rows[n] : n \in 1..Len(sheet.rows)}
CorrectIn(results) == Cardinality({q \in Questions : results[q] = "O"})
Abs(x) == IF x < 0 THEN 0 - x ELSE x

\* C1: extract_result returns "O" exactly for a non-empty feedback whose
\* first two characters are "O:", "X" exactly for one whose first two are
\* "X:", and "?" for everything else (None, empty, other prefixes, leading
\* blanks, lower case); it always returns one of the three.
C1_ExtractResultTotal ==
    verdict # "none" =>
        LET has(c) == /\ feedback # None
                      /\ Len(feedback) >= 2
                      /\ feedback[1] = c
                      /\ feedback[2] = ":"
        IN  /\ verdict \in {"O", "X", "?"}
            /\ (verdict = "O") <=> has("O")
            /\ (verdict = "X") <=> has("X")
            /\ (verdict = "?") <=> (~has("O") /\ ~has("X"))

\* extract_result has answered "?" for " O:" (no trimming), and so it has
\* for None
C1_Witness ==
    /\ verdict = "?"
    /\ feedback = <<" ", "O", ":">>

\* C2: the summary sheet of a non-empty frame has exactly one row per
\* student of the frame, and each row's timestamp and verdicts are those of
\* one submission of that student whose created_at is the student's latest.
C2_SummaryLatestPerStudent ==
    (Built(summary) /\ df # <<>>) =>
        LET ids == {df[i].student_id : i \in 1..Len(df)}
        IN  /\ summary.status = "ok"
            /\ Len(summary.rows) = Cardinality(ids)
            /\ \A s \in ids : \E n \in 1..Len(summary.rows) :
                  summary.rows[n].student_id = s
            /\ \A n \in 1..Len(summary.rows) : \E i \in 1..Len(df) :
                  /\ df[i].student_id = summary.rows[n].student_id
                  /\ \A j \in 1..Len(df) :
                        df[j].student_id = df[i].student_id
                            => df[j].created_at <= df[i].created_at
                  /\ summary.rows[n].submitted_at = df[i].submitted_at
                  /\ summary.rows[n].result = df[i].result

\* one student has submitted at three times T1 < T2 < T3, the last with
\* other verdicts than the two before, and the summary sheet has its one row
C2_Witness ==
    /\ summary.status = "ok"
    /\ Len(df) = 3
    /\ \A i \in 1..3 : df[i].student_id = 1
    /\ df[1].created_at > df[2].created_at
    /\ df[2].created_at > df[3].created_at
    /\ df[1].result # df[2].result
    /\ df[2].result = df[3].result
    /\ Len(summary.rows) = 1
    /\ summary.rows[1].result = df[1].result

\* C3: in every row of the detailed and of the summary sheet the total is
\* the number of "O" among the row's three verdicts, between 0 and 3, and
\* the summary's correct count is its total.
C3_TotalCountsCorrect ==
    /\ \A r \in RowsOf(detailed) :
          /\ r.total = CorrectIn(r.result)
          /\ r.total \in 0..3
    /\ \A r \in RowsOf(summary) :
          /\ r.total = CorrectIn(r.result)
          /\ r.total \in 0..3
          /\ r.correct_count = r.total

\* both sheets are built over a frame holding a row of verdicts X, O, O
\* (an incorrect answer among them) and a row with no correct answer
C3_Witness ==
    /\ detailed.status = "ok"
    /\ summary.status = "ok"
    /\ \E r \in RowsOf(detailed) : r.result = <<"X", "O", "O">> /\ r.total = 2
    /\ \E r \in RowsOf(summary) : r.result = <<"?", "?", "?">> /\ r.total = 0

\* C4: the detailed sheet has one row per row of the frame, in order, each
\* with that submission's student, timestamp, verdicts, answers, feedback
\* and the number of its correct verdicts as total.
C4_DetailedRowPerSubmission ==
    Built(detailed) =>
        /\ detailed.status = "ok"
        /\ Len(detailed.rows) = Len(df)
        /\ \A i \in 1..Len(df) :
              /\ detailed.rows[i].student_id = df[i].student_id
              /\ detailed.rows[i].submitted_at = df[i].submitted_at
              /\ detailed.rows[i].result = df[i].result
              /\ detailed.rows[i].answer = df[i].answer
              /\ detailed.rows[i].feedback = df[i].feedback
              /\ detailed.rows[i].total = CorrectIn(df[i].result)

\* two submissions of one student, verdicts O, X, ? and then X, O, O: the
\* detailed sheet has two rows of totals 1 and 2
C4_Witness ==
    /\ detailed.status = "ok"
    /\ Len(df) = 2
    /\ df[1].student_id = df[2].student_id
    /\ df[2].result = <<"O", "X", "?">>
    /\ df[1].result = <<"X", "O", "O">>
    /\ Len(detailed.rows) = 2
    /\ detailed.rows[2].total = 1
    /\ detailed.rows[1].total = 2

\* C5: a script run whose repository fetch raised ends in the error
\* outcome with no frame, no statistics and no sheet, whatever the cache
\* holds.
C5_FetchFailureAborts ==
    load.status = "raise" =>
        /\ outcome = "error"
        /\ df = <<>>
        /\ Unbuilt

\* the fetch raised while the cache still held an expired entry with rows
\* for the same filter
C5_Witness ==
    /\ load.status = "raise"
    /\ cache[filter].present
    /\ cache[filter].data # <<>>
    /\ outcome = "error"

\* C6: a script run whose load returned zero rows without raising ends in
\* the "no data" outcome, which is not the error outcome, with no frame,
\* no statistics and no sheet.
C6_EmptyResultStops ==
    (load.status \in {"hit", "fetched"} /\ load.data = <<>>) =>
        /\ outcome = "no_data"
        /\ outcome # "error"
        /\ df = <<>>
        /\ Unbuilt

\* the repository answered a filtered query on a non-empty table with no
\* rows
C6_Witness ==
    /\ load.status = "fetched"
    /\ load.data = <<>>
    /\ table # <<>>
    /\ outcome = "no_data"

\* C7 (as claimed): when an answer or a feedback is absent on some row, a
\* built sheet is a MissingField failure, and no detailed row carries a null.
C7_MissingFieldFailsFast ==
    LET absent == \E i \in 1..Len(df) : \E q \in Questions :
                      df[i].answer[q] = None \/ df[i].feedback[q] = None
    IN  /\ (absent /\ Built(detailed)) => detailed.status = "MissingField"
        /\ (absent /\ Built(summary)) => summary.status = "MissingField"
        /\ \A r \in RowsOf(detailed) : \A q \in Questions :
              r.answer[q] # None /\ r.feedback[q] # None

C9_CacheServesOnlyFresh ==
    /\ load.status = "hit" =>
          /\ fetchedAt[filter] # Never
          /\ fetchedAt[filter] <= load.at
          /\ load.at - fetchedAt[filter] < 60
    /\ clicked = "refresh" =>
          /\ load.status \in {"fetched", "raise"}
          /\ \A k \in FilterKeys \ {filter} : ~cache[k].present

\* a plain run was served from an entry fetched earlier
C9_Witness ==
    /\ load.status = "hit"
    /\ clicked = "none"
    /\ load.at - fetchedAt[filter] > 0
    /\ load.data # <<>>

\* C10: a run loads data or shows statistics or sheets only with
\* password_correct true; the flag turns true only in a run of the login
\* button with the configured password typed; a login with another
\* password or with no password configured leaves it false; a logout leaves
\* it false with the login page shown and nothing loaded.
C10_PasswordGate ==
    [][ /\ (load'.status # "none" \/ df' # <<>> \/ ~Unbuilt'
              \/ outcome' \in {"ok", "no_data", "error", "exception"})
            => password_correct'
        /\ (~password_correct /\ password_correct')
            => (clicked' = "login" /\ secret # Unset /\ entered' = secret)
        /\ (clicked' = "login" /\ (secret = Unset \/ entered' # secret))
            => ~password_correct'
        /\ clicked' = "logout"
            => (~password_correct' /\ outcome' = "login" /\ load'.status = "none")
      ]_vars

\* a login whose rerun was served from the cache: the entry dates from
\* before a logout
C10_Witness ==
    /\ clicked = "login"
    /\ password_correct
    /\ load.status = "hit"
    /\ outcome = "ok"

====
